---- MODULE Spec2Model ----
(***************************************************************************)
(* The pagination drivers of lib/restapi.js: RestApi.query (bulk           *)
(* accumulation), RestApi.queryStream (one callback per page) and          *)
(* RestApi.queryBatch (fixed-size batches regrouped from the page stream), *)
(* run against a PageFetcher (request.get) that may answer with any        *)
(* envelope, well-formed or not, or reject.                                *)
(***************************************************************************)
EXTENDS Integers, Sequences, FiniteSets, TLC

\* ---------------------------------------------------------------- bounds
MaxStart == 2
MaxPageSize == 2
MaxLimit == 3
MaxTotal == 4
MaxBatch == 2
\* a server that answers arbitrarily hands out at most this many records
\* during one invocation
MaxServed == 2
\* the fetch counter stops counting here (it never blocks the driver); a
\* well-formed server is asked at most MaxTotal times
MaxCalls == MaxTotal + 1

\* ---------------------------------------------------- JavaScript values
\* A value of an envelope field or of options.limit: a number, undefined
\* (the field is missing) or a non-numeric string such as 'invalid'.
Num(n) == <<"number", n>>
Undefined == <<"undefined", 0>>
Str == <<"string", 0>>
TypeofNumber(v) == v[1] = "number"
Truthy(v) == (v[1] = "number" /\ v[2] # 0) \/ v[1] = "string"
Val(v) == v[2]

Min(a, b) == IF a <= b THEN a ELSE b
Max(a, b) == IF a >= b THEN a ELSE b
Take(s, n) == SubSeq(s, 1, Min(Max(n, 0), Len(s)))
\* the fetch counter, counting up to MaxCalls
Count(c) == IF c < MaxCalls THEN c + 1 ELSE c

Errors == {"ECONNRESET", "HTTP 500"}
NoResult == [kind |-> "none"]
NoInfo == [kind |-> "none"]
NoEnvelope == [Results |-> <<>>, StartIndex |-> Undefined, TotalResultCount |-> Undefined]

VARIABLES
    pc,             \* where the invocation is: idle, fetch, pagecb, batchcb, flushcb, resolved, rejected
    mode,           \* which driver runs: none, query, stream, batch
    server,         \* the PageFetcher's server: wellformed or arbitrary
    total,          \* the number of records of the server's collection
    opts,           \* the merged options: start, pageSize, limit
    req,            \* qs of the request in flight / last issued: start, pagesize
    results,        \* query: the accumulator
    totalFetched,   \* query: the number of records accumulated
    totalProcessed, \* queryStream: the number of records delivered
    cur,            \* the envelope (result) the page handler is working on
    page,           \* queryStream: limitedPageResults of the pending page callback
    pageInfo,       \* queryStream: the pageInfo of the last page callback
    batchSize,      \* queryBatch: batchSize
    currentBatch,   \* queryBatch: currentBatch
    batches,        \* queryBatch: batches.length
    batchTotal,     \* queryBatch: its own totalProcessed
    pageRest,       \* queryBatch: the records of the page the for loop has not reached
    batchInfo,      \* queryBatch: the batchInfo of the last batch callback
    streamResult,   \* queryBatch: the StreamResult handed to the final then()
    result,         \* the value the promise resolved to
    error,          \* the error the promise rejected with
    calls,          \* observer: request.get calls so far (counts to MaxCalls)
    inflight,       \* observer: request.get promises not yet settled
    pending,        \* observer: user callbacks invoked and not yet resolved
    served,         \* observer: the records of all envelopes, in order
    delivered,      \* observer: the records passed to page callbacks, in order
    batchDelivered, \* observer: the sizes of the batches passed to the batch callback
    batchRecords,   \* observer: the records passed to batch callbacks, in order
    pageCalls,      \* observer: page callback invocations
    firstMalformed, \* observer: the first envelope was malformed
    stopped,        \* observer: a user callback has returned a falsy value
    thrown,         \* observer: the error request.get rejected with
    completion,     \* observer: what the completion callback was invoked with, in order
    atFailure,      \* observer: calls, page and batch callbacks when request.get rejected
    heap,           \* stub: the envelope objects a stubbed request.get has stored, by request
    run,            \* stub: which of two identical query calls runs (0 before the first)
    requests,       \* stub: the requests of the current run, in order
    first,          \* stub: the Results and the requests of the first run
    frames,         \* instance: the closure variables of each invocation in flight
    alone,          \* instance: the same invocation run alone on the same inputs
    args,           \* instance: the arguments each invocation was called with
    twin,           \* twin: a query and a queryStream invocation given the same options and answers
    asked,          \* twin: the requests each of the two has issued, in order
    hasKey,         \* Request: this._hasKey
    token,          \* Request: this._token
    http,           \* Request: the HTTP requests issued, in order, each with its outcome
    ops             \* RestApi: the operations called, each with its promise and callback

driverVars == <<pc, mode, server, total, opts, req, results, totalFetched, totalProcessed, cur, page,
          pageInfo, batchSize, currentBatch, batches, batchTotal, pageRest, batchInfo,
          streamResult, result, error, calls, inflight, pending, served, delivered,
          batchDelivered, batchRecords, pageCalls, firstMalformed, stopped, thrown,
          completion, atFailure>>
stubVars == <<heap, run, requests, first>>
instanceVars == <<frames, alone, args>>
twinVars == <<twin, asked>>
requestVars == <<hasKey, token, http, ops>>
vars == <<driverVars, stubVars, instanceVars, twinVars, requestVars>>

\* the whole state as one record, so that the handlers are functions on it
State ==
    [pc |-> pc, mode |-> mode, server |-> server, total |-> total, opts |-> opts, req |-> req,
     results |-> results, totalFetched |-> totalFetched,
     totalProcessed |-> totalProcessed, cur |-> cur, page |-> page,
     pageInfo |-> pageInfo, batchSize |-> batchSize, currentBatch |-> currentBatch,
     batches |-> batches, batchTotal |-> batchTotal, pageRest |-> pageRest,
     batchInfo |-> batchInfo, streamResult |-> streamResult, result |-> result,
     error |-> error, calls |-> calls, inflight |-> inflight, pending |-> pending,
     served |-> served, delivered |-> delivered, batchDelivered |-> batchDelivered,
     batchRecords |-> batchRecords, pageCalls |-> pageCalls,
     firstMalformed |-> firstMalformed, stopped |-> stopped, thrown |-> thrown,
     completion |-> completion,
     atFailure |-> atFailure]

\* the invocation's variables take the values of s
Assigns(s) ==
    /\ pc' = s.pc /\ mode' = s.mode /\ server' = s.server /\ total' = s.total /\ opts' = s.opts
    /\ req' = s.req /\ results' = s.results /\ totalFetched' = s.totalFetched
    /\ totalProcessed' = s.totalProcessed /\ cur' = s.cur /\ page' = s.page
    /\ pageInfo' = s.pageInfo /\ batchSize' = s.batchSize
    /\ currentBatch' = s.currentBatch /\ batches' = s.batches
    /\ batchTotal' = s.batchTotal /\ pageRest' = s.pageRest
    /\ batchInfo' = s.batchInfo /\ streamResult' = s.streamResult
    /\ result' = s.result /\ error' = s.error /\ calls' = s.calls
    /\ inflight' = s.inflight /\ pending' = s.pending /\ served' = s.served
    /\ delivered' = s.delivered /\ batchDelivered' = s.batchDelivered
    /\ batchRecords' = s.batchRecords /\ pageCalls' = s.pageCalls
    /\ firstMalformed' = s.firstMalformed /\ stopped' = s.stopped /\ thrown' = s.thrown
    /\ completion' = s.completion
    /\ atFailure' = s.atFailure

\* a step of the one invocation the drivers' specification follows
Becomes(s) == Assigns(s) /\ UNCHANGED <<stubVars, instanceVars, twinVars, requestVars>>

\* ------------------------------------------------------------ the server
\* records i..i+n-1 of the collection
Records(i, n) == [k \in 1..n |-> i + k - 1]

\* the well-formed answer: the requested start echoed, the records from it
WellFormed(r) ==
    [Results |-> Records(r.start, Max(0, Min(r.pagesize, total - r.start + 1))),
     StartIndex |-> Num(r.start),
     TotalResultCount |-> Num(total)]

\* the pagination metadata a server may send with a page asked for at `start`:
\* the well-formed pair, or one field missing, non-numeric, zero, negative or
\* not advancing with the requested start
Metadata(start) ==
    {<<Num(start), Num(total)>>}
    \cup {<<si, Num(total)>> : si \in {Undefined, Str, Num(0), Num(-1), Num(1)}}
    \cup {<<Num(start), trc>> : trc \in {Undefined, Str, Num(0), Num(-1)}}

\* what request.get may resolve to once the server has handed out `sent`
\* records: the well-formed answer of a well-formed server, any page with any
\* metadata of an arbitrary one
Answers(r, sent) ==
    IF server = "wellformed"
    THEN {WellFormed(r)}
    ELSE { [Results |-> Records(r.start, n), StartIndex |-> m[1],
            TotalResultCount |-> m[2]] :
             n \in {k \in 0..MaxPageSize : sent + k <= MaxServed},
             m \in Metadata(r.start) }

Envelopes(r) == Answers(r, Len(served))

\* the first envelope is missing StartIndex or has a non-numeric TotalResultCount
Malformed(env) ==
    env.StartIndex = Undefined \/ ~TypeofNumber(env.TotalResultCount)

\* ------------------------------------------------- shared by the drivers
\* OptimalPageSize that takes min(pageSize, limit) for every limit given
OptimalPageSize_AnyLimit(o) ==
    IF o.limit # Undefined
    THEN Min(o.pageSize, Val(o.limit))
    ELSE o.pageSize

\* optimalPageSize of query and queryStream
OptimalPageSize(o) ==
    IF o.limit # Undefined /\ Val(o.limit) > 0
    THEN Min(o.pageSize, Val(o.limit))
    ELSE o.pageSize

\* IsValidPagination without the checks of options.pageSize
IsValidPagination_AnyPageSize(env, o) ==
    /\ Truthy(env.StartIndex)
    /\ TypeofNumber(env.StartIndex)
    /\ Truthy(env.TotalResultCount)
    /\ TypeofNumber(env.TotalResultCount)

\* isValidPagination of loadRemainingPages and processPages
IsValidPagination(env, o) ==
    /\ Truthy(env.StartIndex)
    /\ TypeofNumber(env.StartIndex)
    /\ o.pageSize # 0
    /\ o.pageSize > 0
    /\ Truthy(env.TotalResultCount)
    /\ TypeofNumber(env.TotalResultCount)

\* StartIndex + pageSize <= TotalResultCount; with a missing or non-numeric
\* operand the sum or the count is NaN and the comparison is false
HasMoreData(env, o) ==
    /\ TypeofNumber(env.StartIndex)
    /\ TypeofNumber(env.TotalResultCount)
    /\ Val(env.StartIndex) + o.pageSize <= Val(env.TotalResultCount)

\* WithinLimit with the limit forgotten
WithinLimit_Ignored(o, n) == TRUE

WithinLimit(o, n) == o.limit = Undefined \/ n < Val(o.limit)

\* NextStart that advances by the first request's trimmed page size
NextStart_Optimal(env, o) == Val(env.StartIndex) + OptimalPageSize(o)

\* result.StartIndex + options.pageSize, the start of nextPageOptions
NextStart(env, o) == Val(env.StartIndex) + o.pageSize

\* NextPage whose request is built anew from the options
NextPage_Rebuilt(s, env) ==
    [s EXCEPT !.pc = "fetch",
              !.req = [start |-> NextStart(env, s.opts), pagesize |-> s.opts.pageSize],
              !.calls = Count(s.calls),
              !.inflight = s.inflight + 1]

\* request.get(nextPageOptions), issued by the handler that produced s:
\* nextPageOptions.qs is Object.assign({}, requestOptions.qs, {start: ...})
NextPage(s, env) ==
    [s EXCEPT !.pc = "fetch",
              !.req = [s.req EXCEPT !.start = NextStart(env, s.opts)],
              !.calls = Count(s.calls),
              !.inflight = s.inflight + 1]

\* request.get has resolved with env
Received(s, env) ==
    [s EXCEPT !.inflight = s.inflight - 1,
              !.served = s.served \o env.Results,
              !.firstMalformed = IF s.calls = 1 THEN Malformed(env) ELSE s.firstMalformed]

\* Slice with the slice forgotten: the whole page is kept
Slice_Whole(pageResults, remainingNeeded) == pageResults

\* pageResults.slice(0, remainingNeeded): a negative end counts from the end
Slice(pageResults, remainingNeeded) ==
    IF remainingNeeded >= 0
    THEN Take(pageResults, remainingNeeded)
    ELSE Take(pageResults, Len(pageResults) + remainingNeeded)

\* AppendPage as results.concat(pageResults) with its value dropped
AppendPage_Discarded(acc, pageResults) == acc

\* results.push.apply(results, pageResults)
AppendPage(acc, pageResults) == acc \o pageResults

\* callbackify(queryPromise, callback): the completion callback gets what the
\* promise it is attached to settles with
Callbackify(s, outcome) == [s EXCEPT !.completion = Append(s.completion, outcome)]

\* ------------------------------------------------------------------ query
\* QueryResult that leaves the last envelope's StartIndex in place
QueryResult_Envelope(s, env) ==
    [kind |-> "query", Results |-> s.results, StartIndex |-> Val(env.StartIndex),
     PageSize |-> Len(s.results), TotalResultCount |-> env.TotalResultCount]

\* the result object query resolves with
QueryResult(s, env) ==
    [kind |-> "query", Results |-> s.results, StartIndex |-> s.opts.start,
     PageSize |-> Len(s.results), TotalResultCount |-> env.TotalResultCount]

\* QueryDone that faults on an envelope whose pagination metadata is invalid
QueryDone_Strict(s, env) ==
    IF ~IsValidPagination(env, s.opts) /\ Len(env.Results) > 0
    THEN [s EXCEPT !.pc = "rejected", !.error = "invalid pagination"]
    ELSE [s EXCEPT !.pc = "resolved", !.result = QueryResult(s, env)]

QueryDone(s, env) ==
    Callbackify([s EXCEPT !.pc = "resolved", !.result = QueryResult(s, env)],
                QueryResult(s, env))

\* loadRemainingPages(result)
LoadRemainingPages(s0, env) ==
    LET s == [s0 EXCEPT !.cur = env]
        pageResults == env.Results
        limited == s.opts.limit # Undefined
        remainingNeeded == Val(s.opts.limit) - s.totalFetched
    IN  IF Len(pageResults) > 0 /\ limited /\ remainingNeeded <= 0
        THEN QueryDone(s, env)
        ELSE IF Len(pageResults) > 0 /\ limited /\ Len(pageResults) > remainingNeeded
        THEN QueryDone([s EXCEPT !.results = AppendPage(s.results,
                                                Slice(pageResults, remainingNeeded)),
                                 !.totalFetched = s.totalFetched + remainingNeeded], env)
        ELSE LET s1 == IF Len(pageResults) > 0
                       THEN [s EXCEPT !.results = AppendPage(s.results, pageResults),
                                      !.totalFetched = s.totalFetched + Len(pageResults)]
                       ELSE s
             IN  IF /\ IsValidPagination(env, s1.opts)
                    /\ HasMoreData(env, s1.opts)
                    /\ WithinLimit(s1.opts, s1.totalFetched)
                 THEN NextPage(s1, env)
                 ELSE QueryDone(s1, env)

\* ------------------------------------------------------------ queryBatch
\* the BatchResult queryBatch resolves with
BatchResult(s) ==
    [kind |-> "batch", totalProcessed |-> s.batchTotal, totalBatches |-> s.batches,
     completed |-> s.streamResult.completed]

\* AfterStream without the flush of the remainder
AfterStream_NoFlush(s, sr) ==
    LET s1 == [s EXCEPT !.streamResult = sr]
    IN  [s1 EXCEPT !.pc = "resolved",
                   !.result = [kind |-> "batch", totalProcessed |-> s1.batchTotal,
                               totalBatches |-> s1.batches, completed |-> sr.completed]]

\* the then() after queryStream: the remainder is flushed, or the BatchResult made
AfterStream(s, sr) ==
    LET s1 == [s EXCEPT !.streamResult = sr]
    IN  IF Len(s1.currentBatch) > 0
        THEN [s1 EXCEPT !.pc = "flushcb",
                        !.pending = s1.pending + 1,
                        !.batchInfo = [kind |-> "batch", batchNumber |-> s1.batches + 1,
                                       batchSize |-> Len(s1.currentBatch),
                                       totalProcessed |-> s1.batchTotal + Len(s1.currentBatch),
                                       totalResultCount |-> Num(sr.totalProcessed)],
                        !.batchDelivered = Append(s1.batchDelivered, Len(s1.currentBatch)),
                        !.batchRecords = s1.batchRecords \o s1.currentBatch]
        ELSE [s1 EXCEPT !.pc = "resolved", !.result = BatchResult(s1)]

\* ----------------------------------------------------------- queryStream
\* StreamDone that reports completed: true however processPages ended
StreamDone_AlwaysCompleted(s, completed) ==
    LET sr == [kind |-> "stream", totalProcessed |-> s.totalProcessed,
               completed |-> TRUE]
    IN  IF s.mode = "batch"
        THEN AfterStream(s, sr)
        ELSE [s EXCEPT !.pc = "resolved", !.result = sr]

\* processPages returns {totalProcessed, completed}
StreamDone(s, completed) ==
    LET sr == [kind |-> "stream", totalProcessed |-> s.totalProcessed,
               completed |-> completed]
    IN  IF s.mode = "batch"
        THEN AfterStream(Callbackify(s, sr), sr)
        ELSE Callbackify([s EXCEPT !.pc = "resolved", !.result = sr], sr)

\* processPages from "Check if there are more pages" on
MorePages(s) ==
    IF /\ IsValidPagination(s.cur, s.opts)
       /\ HasMoreData(s.cur, s.opts)
       /\ WithinLimit(s.opts, s.totalProcessed)
    THEN NextPage(s, s.cur)
    ELSE StreamDone(s, TRUE)

\* AfterPageCallback that returns on a stop before counting the page
AfterPageCallback_Uncounted(s, continueProcessing) ==
    IF ~continueProcessing
    THEN StreamDone(s, FALSE)
    ELSE LET s1 == [s EXCEPT !.totalProcessed = s.totalProcessed + Len(s.page)]
         IN  IF s1.opts.limit # Undefined /\ s1.totalProcessed >= Val(s1.opts.limit)
             THEN StreamDone(s1, TRUE)
             ELSE MorePages(s1)

\* processPages after `await onPageCallback(...)` gave continueProcessing
AfterPageCallback(s, continueProcessing) ==
    LET s1 == [s EXCEPT !.totalProcessed = s.totalProcessed + Len(s.page)]
    IN  IF ~continueProcessing
        THEN StreamDone(s1, FALSE)
        ELSE IF s1.opts.limit # Undefined /\ s1.totalProcessed >= Val(s1.opts.limit)
        THEN StreamDone(s1, TRUE)
        ELSE MorePages(s1)

\* InvokeBatch that numbers the batches from 0
InvokeBatch_ZeroBased(s) ==
    [s EXCEPT !.pc = "batchcb",
              !.pending = s.pending + 1,
              !.batchInfo = [kind |-> "batch", batchNumber |-> s.batches,
                             batchSize |-> Len(s.currentBatch),
                             totalProcessed |-> s.batchTotal + Len(s.currentBatch),
                             totalResultCount |-> s.pageInfo.totalResultCount],
              !.batchDelivered = Append(s.batchDelivered, Len(s.currentBatch)),
              !.batchRecords = s.batchRecords \o s.currentBatch]

\* onBatchCallback([...currentBatch], batchInfo) is invoked and awaited
InvokeBatch(s) ==
    [s EXCEPT !.pc = "batchcb",
              !.pending = s.pending + 1,
              !.batchInfo = [kind |-> "batch", batchNumber |-> s.batches + 1,
                             batchSize |-> Len(s.currentBatch),
                             totalProcessed |-> s.batchTotal + Len(s.currentBatch),
                             totalResultCount |-> s.pageInfo.totalResultCount],
              !.batchDelivered = Append(s.batchDelivered, Len(s.currentBatch)),
              !.batchRecords = s.batchRecords \o s.currentBatch]

\* the for loop of queryBatch's page callback over the records not yet reached
RECURSIVE BatchLoop(_)
BatchLoop(s) ==
    IF s.pageRest = <<>>
    THEN AfterPageCallback(s, TRUE)
    ELSE LET s1 == [s EXCEPT !.currentBatch = Append(s.currentBatch, Head(s.pageRest)),
                             !.pageRest = Tail(s.pageRest)]
         IN  IF Len(s1.currentBatch) >= s1.batchSize
             THEN InvokeBatch(s1)
             ELSE BatchLoop(s1)

\* LimitedPageResults with the trimming forgotten
LimitedPageResults_Untrimmed(s, pageResults) == pageResults

\* LimitedPageResults that trims to one record less than the limit allows
LimitedPageResults_OffByOne(s, pageResults) ==
    IF s.opts.limit # Undefined /\ Len(pageResults) > Val(s.opts.limit) - s.totalProcessed
    THEN Slice(pageResults, Val(s.opts.limit) - s.totalProcessed - 1)
    ELSE pageResults

\* the page's records trimmed to what the limit still allows
LimitedPageResults(s, pageResults) ==
    IF s.opts.limit # Undefined /\ Len(pageResults) > Val(s.opts.limit) - s.totalProcessed
    THEN Slice(pageResults, Val(s.opts.limit) - s.totalProcessed)
    ELSE pageResults

\* InvokePage without the await: the callback is started and processPages goes on
InvokePage_NotAwaited(s, env, limited) ==
    LET s1 == [s EXCEPT !.cur = env,
                        !.page = limited,
                        !.pageInfo = [kind |-> "page", startIndex |-> env.StartIndex,
                                      pageSize |-> Len(limited),
                                      totalResultCount |-> env.TotalResultCount,
                                      totalProcessed |-> s.totalProcessed + Len(limited)],
                        !.delivered = s.delivered \o limited,
                        !.pageCalls = s.pageCalls + 1,
                        !.pending = s.pending + 1,
                        !.totalProcessed = s.totalProcessed + Len(limited)]
    IN  MorePages(s1)

\* InvokePage whose pageInfo.totalProcessed leaves the current page out
InvokePage_StaleTotal(s, env, limited) ==
    LET s1 == [s EXCEPT !.cur = env,
                        !.page = limited,
                        !.pageInfo = [kind |-> "page", startIndex |-> env.StartIndex,
                                      pageSize |-> Len(limited),
                                      totalResultCount |-> env.TotalResultCount,
                                      totalProcessed |-> s.totalProcessed],
                        !.delivered = s.delivered \o limited,
                        !.pageCalls = s.pageCalls + 1]
    IN  IF s.mode = "batch"
        THEN BatchLoop([s1 EXCEPT !.pageRest = limited])
        ELSE [s1 EXCEPT !.pc = "pagecb", !.pending = s1.pending + 1]

\* onPageCallback(limitedPageResults, pageInfo) is invoked: the user's callback
\* for queryStream, the batching callback for queryBatch
InvokePage(s, env, limited) ==
    LET s1 == [s EXCEPT !.cur = env,
                        !.page = limited,
                        !.pageInfo = [kind |-> "page", startIndex |-> env.StartIndex,
                                      pageSize |-> Len(limited),
                                      totalResultCount |-> env.TotalResultCount,
                                      totalProcessed |-> s.totalProcessed + Len(limited)],
                        !.delivered = s.delivered \o limited,
                        !.pageCalls = s.pageCalls + 1]
    IN  IF s.mode = "batch"
        THEN BatchLoop([s1 EXCEPT !.pageRest = limited])
        ELSE [s1 EXCEPT !.pc = "pagecb", !.pending = s1.pending + 1]

\* ProcessPages whose early return asks for remaining < 0
ProcessPages_StrictExit(s0, env) ==
    LET s == [s0 EXCEPT !.cur = env]
        pageResults == env.Results
    IN  IF Len(pageResults) > 0
        THEN IF s.opts.limit # Undefined /\ Val(s.opts.limit) - s.totalProcessed < 0
             THEN StreamDone(s, TRUE)
             ELSE InvokePage(s, env, LimitedPageResults(s, pageResults))
        ELSE MorePages(s)

\* processPages(result)
ProcessPages(s0, env) ==
    LET s == [s0 EXCEPT !.cur = env]
        pageResults == env.Results
    IN  IF Len(pageResults) > 0
        THEN IF s.opts.limit # Undefined /\ Val(s.opts.limit) - s.totalProcessed <= 0
             THEN StreamDone(s, TRUE)
             ELSE InvokePage(s, env, LimitedPageResults(s, pageResults))
        ELSE MorePages(s)

\* ------------------------------------------------------------- the steps
Limits == {Undefined} \cup {Num(n) : n \in -1..MaxLimit}
Options == [start : 1..MaxStart, pageSize : 0..MaxPageSize, limit : Limits]

\* the state a driver starts from: defaults merged, first request issued
Started(s, m, o, bs) ==
    [s EXCEPT !.pc = "fetch", !.mode = m, !.opts = o, !.batchSize = bs,
              !.req = [start |-> o.start, pagesize |-> OptimalPageSize(o)],
              !.calls = Count(s.calls), !.inflight = s.inflight + 1]

query ==
    /\ pc = "idle"
    /\ \E o \in Options : Becomes(Started(State, "query", o, 0))

queryStream ==
    /\ pc = "idle"
    /\ \E o \in Options : Becomes(Started(State, "stream", o, 0))

queryBatch ==
    /\ pc = "idle"
    /\ \E o \in Options, bs \in 1..MaxBatch : Becomes(Started(State, "batch", o, bs))

\* request.get resolves; query's then(loadRemainingPages) runs
QueryPage ==
    /\ pc = "fetch" /\ mode = "query"
    /\ \E env \in Envelopes(req) : Becomes(LoadRemainingPages(Received(State, env), env))

\* request.get resolves; processPages runs up to its next await
StreamPage ==
    /\ pc = "fetch" /\ mode \in {"stream", "batch"}
    /\ \E env \in Envelopes(req) : Becomes(ProcessPages(Received(State, env), env))

\* Rejected that swallows the error and resolves with what was gathered
Rejected_Partial(s, e) ==
    [s EXCEPT !.pc = "resolved", !.inflight = s.inflight - 1, !.thrown = e,
              !.result = [kind |-> "partial", Results |-> s.results,
                          totalProcessed |-> s.totalProcessed],
              !.atFailure = [calls |-> s.calls, pageCalls |-> s.pageCalls,
                             batchCalls |-> Len(s.batchDelivered)]]

\* request.get rejects: the promise chain rejects with the same error
Rejected(s, e) ==
    Callbackify([s EXCEPT !.pc = "rejected", !.error = e, !.inflight = s.inflight - 1,
                          !.thrown = e,
                          !.atFailure = [calls |-> s.calls, pageCalls |-> s.pageCalls,
                                         batchCalls |-> Len(s.batchDelivered)]],
                [kind |-> "error", error |-> e])

FetchFails ==
    /\ pc = "fetch"
    /\ \E e \in Errors : Becomes(Rejected(State, e))

\* the user's page callback returns or resolves
PageCallbackReturns ==
    /\ pc = "pagecb"
    /\ \E c \in BOOLEAN :
         Becomes(AfterPageCallback([State EXCEPT !.pending = pending - 1,
                                                 !.stopped = stopped \/ ~c], c))

\* AfterBatchCallback without `currentBatch = []`
AfterBatchCallback_NotCleared(s, continueProcessing) ==
    LET s1 == [s EXCEPT !.batches = s.batches + 1,
                        !.batchTotal = s.batchTotal + Len(s.currentBatch)]
    IN  IF ~continueProcessing
        THEN AfterPageCallback(s1, FALSE)
        ELSE BatchLoop(s1)

\* AfterBatchCallback that goes on with the page whatever the callback returned
AfterBatchCallback_IgnoresStop(s, continueProcessing) ==
    LET s1 == [s EXCEPT !.batches = s.batches + 1,
                        !.batchTotal = s.batchTotal + Len(s.currentBatch),
                        !.currentBatch = <<>>]
    IN  BatchLoop(s1)

\* the user's batch callback returns or resolves inside the for loop
AfterBatchCallback(s, continueProcessing) ==
    LET s1 == [s EXCEPT !.batches = s.batches + 1,
                        !.batchTotal = s.batchTotal + Len(s.currentBatch),
                        !.currentBatch = <<>>]
    IN  IF ~continueProcessing
        THEN AfterPageCallback(s1, FALSE)
        ELSE BatchLoop(s1)

BatchCallbackReturns ==
    /\ pc = "batchcb"
    /\ \E c \in BOOLEAN :
         Becomes(AfterBatchCallback([State EXCEPT !.pending = pending - 1,
                                                  !.stopped = stopped \/ ~c], c))

\* the user's batch callback returns or resolves for the remainder
AfterFlush(s) ==
    LET s1 == [s EXCEPT !.batches = s.batches + 1,
                        !.batchTotal = s.batchTotal + Len(s.currentBatch)]
    IN  [s1 EXCEPT !.pc = "resolved", !.result = BatchResult(s1)]

FlushCallbackReturns ==
    /\ pc = "flushcb"
    /\ \E c \in BOOLEAN :
         Becomes(AfterFlush([State EXCEPT !.pending = pending - 1,
                                          !.stopped = stopped \/ ~c]))

\* no invocation yet
Idle ==
    /\ pc = "idle" /\ mode = "none"
    /\ opts = [start |-> 1, pageSize |-> 1, limit |-> Undefined]
    /\ req = [start |-> 1, pagesize |-> 1]
    /\ results = <<>> /\ totalFetched = 0 /\ totalProcessed = 0
    /\ cur = NoEnvelope /\ page = <<>> /\ pageInfo = NoInfo
    /\ batchSize = 0 /\ currentBatch = <<>> /\ batches = 0 /\ batchTotal = 0
    /\ pageRest = <<>> /\ batchInfo = NoInfo /\ streamResult = NoResult
    /\ result = NoResult /\ error = "" /\ calls = 0 /\ inflight = 0 /\ pending = 0
    /\ served = <<>> /\ delivered = <<>> /\ batchDelivered = <<>> /\ batchRecords = <<>>
    /\ pageCalls = 0 /\ firstMalformed = FALSE /\ stopped = FALSE
    /\ thrown = "" /\ completion = <<>> /\ atFailure = NoInfo

NoStub == heap = <<>> /\ run = 0 /\ requests = <<>> /\ first = NoResult

NoInstance == frames = <<>> /\ alone = <<>> /\ args = <<>>

NoTwin == twin = <<>> /\ asked = <<>>

NoRequest == hasKey = FALSE /\ token = "" /\ http = <<>> /\ ops = <<>>

Init ==
    /\ \/ server = "wellformed" /\ total \in 0..MaxTotal
       \/ server = "arbitrary" /\ total = MaxTotal
    /\ Idle /\ NoStub /\ NoInstance /\ NoTwin /\ NoRequest

Next ==
    \/ query
    \/ queryStream
    \/ queryBatch
    \/ QueryPage
    \/ StreamPage
    \/ FetchFails
    \/ PageCallbackReturns
    \/ BatchCallbackReturns
    \/ FlushCallbackReturns

Spec == Init /\ [][Next]_vars

\* RestApi.query alone, under the scheduling of the event loop: request.get
\* settles, and a settled promise's handlers run
NextQuery ==
    \/ query
    \/ QueryPage
    \/ FetchFails

FairQuerySpec == Init /\ [][NextQuery]_vars /\ WF_vars(NextQuery)

\* RestApi.queryStream and RestApi.queryBatch alone, under the same scheduling
\* and with callbacks that return
NextStream ==
    \/ queryStream
    \/ queryBatch
    \/ StreamPage
    \/ FetchFails
    \/ PageCallbackReturns
    \/ BatchCallbackReturns
    \/ FlushCallbackReturns

FairStreamSpec == Init /\ [][NextStream]_vars /\ WF_vars(NextStream)

\* ------------------------------------------- query twice against a stub
\* request.get stubbed as in the tests: the stub keeps the envelope objects it
\* hands out and answers the same request with the same object
MaxGathered == 6

\* the envelope object the stub holds for request r
Stored(r) == IF r \in DOMAIN heap THEN heap[r] ELSE WellFormed(r)

\* the stub's store with the object for request r in state env
Store(r, env) == [x \in DOMAIN heap \cup {r} |-> IF x = r THEN env ELSE heap[x]]

\* the object request.get resolved with, once loadRemainingPages has written
\* result.Results, result.StartIndex and result.PageSize into it and returned it
Envelope(res) ==
    [Results |-> res.Results, StartIndex |-> Num(res.StartIndex),
     TotalResultCount |-> res.TotalResultCount]

\* the closure variables of a new call
Fresh(s) ==
    [s EXCEPT !.pc = "idle", !.mode = "none", !.results = <<>>, !.totalFetched = 0,
              !.cur = NoEnvelope, !.result = NoResult, !.calls = 0, !.served = <<>>,
              !.firstMalformed = FALSE, !.completion = <<>>]

\* the first query(options)
StubQuery ==
    /\ pc = "idle" /\ run = 0
    /\ \E o \in Options :
         LET s == Started(State, "query", o, 0)
         IN  Assigns(s) /\ run' = 1 /\ requests' = <<s.req>>
    /\ UNCHANGED <<heap, first, instanceVars, twinVars, requestVars>>

\* the stub resolves with its stored object; loadRemainingPages runs on it
StubPage ==
    /\ pc = "fetch" /\ run \in {1, 2} /\ Len(served) <= MaxGathered
    /\ LET env == Stored(req)
           s == LoadRemainingPages(Received(State, env), env)
       IN  /\ Assigns(s)
           /\ heap' = Store(req, IF s.pc = "resolved" THEN Envelope(s.result) ELSE env)
           /\ requests' = IF s.pc = "fetch" THEN Append(requests, s.req) ELSE requests
           /\ first' = IF run = 1 /\ s.pc = "resolved"
                       THEN [kind |-> "run", Results |-> s.result.Results,
                             requests |-> requests]
                       ELSE first
    /\ UNCHANGED <<run, instanceVars, twinVars, requestVars>>

\* query(options) again, with the options of the first call
StubAgain ==
    /\ pc = "resolved" /\ run = 1
    /\ LET s == Started(Fresh(State), "query", opts, 0)
       IN  Assigns(s) /\ run' = 2 /\ requests' = <<s.req>>
    /\ UNCHANGED <<heap, first, instanceVars, twinVars, requestVars>>

StubInit ==
    /\ server = "wellformed" /\ total \in 0..MaxTotal
    /\ Idle /\ NoStub /\ NoInstance /\ NoTwin /\ NoRequest

StubNext ==
    \/ StubQuery
    \/ StubPage
    \/ StubAgain

StubSpec == StubInit /\ [][StubNext]_vars

\* ------------------------------------ invocations on one RestApi instance
\* several calls of query, queryStream and queryBatch in flight on one
\* instance, their fetches and callbacks interleaved; the server is well-formed
DefaultStart == 1
DefaultPageSize == 200
Invocations == {1, 2}
Callback == <<"function", 0>>
NoArgs == [mode |-> "none"]

\* Frame with the variables on the instance: every call uses the same ones
Frame_Shared(i) == 1

\* the closure holding results, totalFetched, totalProcessed, batches and
\* currentBatch of invocation i: they are declared inside the called method
Frame(i) == i

\* the options as the caller may write them: start and pageSize may be left out
InstanceOptions ==
    [start : {Undefined, Num(MaxStart)}, pageSize : {Undefined} \cup {Num(n) : n \in 0..MaxPageSize},
     limit : {Undefined, Num(MaxLimit)}]

\* Merge without the defaults: what the caller left out stays out
Merge_NoDefaults(raw) ==
    [start |-> Val(raw.start), limit |-> raw.limit, pageSize |-> Val(raw.pageSize)]

\* _.merge({start: 1, pageSize: 200}, options)
Merge(raw) ==
    [start |-> IF raw.start = Undefined THEN DefaultStart ELSE Val(raw.start),
     limit |-> raw.limit,
     pageSize |-> IF raw.pageSize = Undefined THEN DefaultPageSize ELSE Val(raw.pageSize)]

\* what may stand in the place of batchSize: a number, or the batch callback
BatchArgs(m) ==
    IF m = "batch" THEN {Callback} \cup {Num(n) : n \in 1..MaxBatch} ELSE {Undefined}

\* queryBatch's handling of its overloaded parameters
BatchSizeOf(raw, b) ==
    IF b = Callback
    THEN IF Truthy(raw.pageSize) THEN Val(raw.pageSize) ELSE DefaultPageSize
    ELSE Val(b)

\* what the environment may hand an invocation waiting in s
Inputs(s) ==
    IF s.pc = "fetch" THEN {"ok"} \cup Errors
    ELSE IF s.pc \in {"pagecb", "batchcb", "flushcb"} THEN {"continue", "stop"}
    ELSE {}

\* the handler that runs in an invocation waiting in s on input in
Handle(s, in) ==
    LET env == WellFormed(s.req)
        back == [s EXCEPT !.pending = s.pending - 1,
                          !.stopped = s.stopped \/ in = "stop"]
    IN  CASE s.pc = "fetch" /\ in \in Errors -> Rejected(s, in)
          [] s.pc = "fetch" /\ in = "ok" /\ s.mode = "query" ->
                LoadRemainingPages(Received(s, env), env)
          [] s.pc = "fetch" /\ in = "ok" /\ s.mode # "query" ->
                ProcessPages(Received(s, env), env)
          [] s.pc = "pagecb" -> AfterPageCallback(back, in = "continue")
          [] s.pc = "batchcb" -> AfterBatchCallback(back, in = "continue")
          [] s.pc = "flushcb" -> AfterFlush(back)
          [] OTHER -> s

\* invocation i is called
InstanceCall(i) ==
    /\ args[i] = NoArgs
    /\ \E m \in {"query", "stream", "batch"}, raw \in InstanceOptions :
         \E b \in BatchArgs(m) :
            LET s == Started(State, m, Merge(raw), BatchSizeOf(raw, b))
            IN  /\ frames' = [frames EXCEPT ![Frame(i)] = s]
                /\ alone' = [alone EXCEPT ![i] = s]
                /\ args' = [args EXCEPT ![i] = [mode |-> m, start |-> raw.start,
                                                 pageSize |-> raw.pageSize,
                                                 limit |-> raw.limit,
                                                 batchSize |-> b]]
    /\ UNCHANGED <<driverVars, stubVars, twinVars, requestVars>>

\* a fetch of invocation i settles, or one of its callbacks returns
InstanceStep(i) ==
    /\ args[i] # NoArgs
    /\ \E in \in Inputs(alone[i]) :
         /\ frames' = [frames EXCEPT ![Frame(i)] = Handle(frames[Frame(i)], in)]
         /\ alone' = [alone EXCEPT ![i] = Handle(alone[i], in)]
    /\ UNCHANGED <<args, driverVars, stubVars, twinVars, requestVars>>

InstanceInit ==
    /\ server = "wellformed" /\ total = MaxTotal
    /\ Idle /\ NoStub
    /\ frames = [i \in Invocations |-> State]
    /\ alone = [i \in Invocations |-> State]
    /\ args = [i \in Invocations |-> NoArgs]
    /\ NoTwin /\ NoRequest

InstanceNext ==
    \/ \E i \in Invocations : InstanceCall(i)
    \/ \E i \in Invocations : InstanceStep(i)

InstanceSpec == InstanceInit /\ [][InstanceNext]_vars

\* ------------------------- query and queryStream side by side
\* query and queryStream called with the same options against the same server:
\* every request.get of the two is answered alike, and the page callback of
\* queryStream always asks to continue
Issued(log, s) == IF s.pc = "fetch" THEN Append(log, s.req) ELSE log

TwinCall ==
    /\ twin.query.pc = "idle"
    /\ \E o \in Options :
         LET q == Started(twin.query, "query", o, 0)
             st == Started(twin.stream, "stream", o, 0)
         IN  /\ twin' = [query |-> q, stream |-> st]
             /\ asked' = [query |-> <<q.req>>, stream |-> <<st.req>>]
    /\ UNCHANGED <<driverVars, stubVars, instanceVars, requestVars>>

\* the request both wait for resolves: loadRemainingPages and processPages run
TwinPage ==
    /\ twin.query.pc = "fetch" /\ twin.stream.pc = "fetch"
    /\ twin.query.req = twin.stream.req
    /\ Len(asked.query) <= MaxCalls
    /\ \E env \in Answers(twin.query.req, Len(twin.query.served)) :
         LET q == LoadRemainingPages(Received(twin.query, env), env)
             st == ProcessPages(Received(twin.stream, env), env)
         IN  /\ twin' = [query |-> q, stream |-> st]
             /\ asked' = [query |-> Issued(asked.query, q),
                          stream |-> Issued(asked.stream, st)]
    /\ UNCHANGED <<driverVars, stubVars, instanceVars, requestVars>>

\* the request both wait for rejects
TwinFails ==
    /\ twin.query.pc = "fetch" /\ twin.stream.pc = "fetch"
    /\ twin.query.req = twin.stream.req
    /\ \E e \in Errors :
         twin' = [query |-> Rejected(twin.query, e), stream |-> Rejected(twin.stream, e)]
    /\ UNCHANGED <<asked, driverVars, stubVars, instanceVars, requestVars>>

\* the page callback returns true
TwinCallback ==
    /\ twin.stream.pc = "pagecb"
    /\ LET st == AfterPageCallback([twin.stream EXCEPT !.pending = @ - 1], TRUE)
       IN  /\ twin' = [twin EXCEPT !.stream = st]
           /\ asked' = [asked EXCEPT !.stream = Issued(@, st)]
    /\ UNCHANGED <<driverVars, stubVars, instanceVars, requestVars>>

TwinInit ==
    /\ \/ server = "wellformed" /\ total \in 0..MaxTotal
       \/ server = "arbitrary" /\ total = MaxTotal
    /\ Idle /\ NoStub /\ NoInstance /\ NoRequest
    /\ twin = [query |-> State, stream |-> State]
    /\ asked = [query |-> <<>>, stream |-> <<>>]

TwinNext ==
    \/ TwinCall
    \/ TwinPage
    \/ TwinFails
    \/ TwinCallback

TwinSpec == TwinInit /\ [][TwinNext]_vars

\* --------------------------- get, update, del, add, remove over Request
\* The operations of RestApi that take a ref, and the Request they go through:
\* doRequest issues one HTTP request, doSecuredRequest authorizes first when
\* the Request has neither an API key nor a token.
Calls == {1, 2}
Operations == {"get", "update", "del", "add", "remove"}
Refs == {"/defect/1234", "https://rally1.rallydev.com/slm/webservice/v2.0/defect/1234",
         "invalid-ref"}
Tokens == {"token-1", "token-2"}
NoToken == ""
NoRef == ""
NoError == [message |-> <<>>, errors |-> <<>>]
NoOp == [op |-> "none", ref |-> "", style |-> "", promise |-> "none", error |-> NoError,
         callbacks |-> <<>>]
AuthorizeUrl == <<"/security/authorize">>

\* refUtils.getRelative(ref): the relative ref of a ref, nothing for what is no ref
GetRelative(ref) ==
    IF ref \in {"/defect/1234",
                "https://rally1.rallydev.com/slm/webservice/v2.0/defect/1234"}
    THEN "/defect/1234"
    ELSE NoRef

\* generateError(errorMessages)
GenerateError(errorMessages) == [message |-> errorMessages[1], errors |-> errorMessages]

\* new Error(`Invalid ref: ${options.ref}`) with errors = [`Invalid ref: ${options.ref}`]
InvalidRef(ref) ==
    [message |-> <<"Invalid ref: ", ref>>, errors |-> << <<"Invalid ref: ", ref>> >>]

\* the Request and the operations as one record
RequestState == [hasKey |-> hasKey, token |-> token, http |-> http, ops |-> ops]

RequestBecomes(R) ==
    /\ hasKey' = R.hasKey /\ token' = R.token /\ http' = R.http /\ ops' = R.ops
    /\ UNCHANGED <<driverVars, stubVars, instanceVars, twinVars>>

\* the HTTP method and the url of an operation on relativeRef
Method(op) ==
    CASE op = "get" -> "get"
      [] op = "update" -> "put"
      [] op = "del" -> "delete"
      [] OTHER -> "post"

Url(op, relativeRef) ==
    IF op \in {"add", "remove"} THEN <<relativeRef, "/Children/", op>> ELSE <<relativeRef>>

\* callbackify(promise, callback) once the promise of call c settles
Settles(R, c, promise, err) ==
    [R EXCEPT !.ops[c].promise = promise,
              !.ops[c].error = err,
              !.ops[c].callbacks = IF R.ops[c].style = "callback"
                                   THEN Append(@, [promise |-> promise, error |-> err])
                                   ELSE @]

\* Request.doRequest: this.httpRequest(axiosOptions) is issued
doRequest(R, c, method, url, key) ==
    [R EXCEPT !.http = Append(@, [call |-> c, method |-> method, url |-> url, key |-> key,
                                  state |-> "sent", token |-> NoToken])]

\* Request.auth
auth(R, c) == doRequest(R, c, "get", AuthorizeUrl, NoToken)

\* doSecuredRequest that sends the request at once, with whatever token there is
doSecuredRequest_Unauthorized(R, c, method, url) ==
    IF R.hasKey
    THEN doRequest(R, c, method, url, NoToken)
    ELSE doRequest(R, c, method, url, R.token)

\* Request.doSecuredRequest up to the first HTTP request it issues
doSecuredRequest(R, c, method, url) ==
    IF R.hasKey
    THEN doRequest(R, c, method, url, NoToken)
    ELSE IF R.token # NoToken
    THEN doRequest(R, c, method, url, R.token)
    ELSE auth(R, c)

\* Operation without the check of the ref
Operation_Unchecked(R0, c, op, ref, style) ==
    LET relativeRef == GetRelative(ref)
        R == [R0 EXCEPT !.ops[c] = [op |-> op, ref |-> ref, style |-> style,
                                    promise |-> "pending", error |-> NoError,
                                    callbacks |-> <<>>]]
    IN  IF op = "get"
        THEN doRequest(R, c, "get", Url(op, relativeRef), NoToken)
        ELSE doSecuredRequest(R, c, Method(op), Url(op, relativeRef))

\* RestApi.get, update, del, and collectionPost for add and remove
Operation(R0, c, op, ref, style) ==
    LET relativeRef == GetRelative(ref)
        R == [R0 EXCEPT !.ops[c] = [op |-> op, ref |-> ref, style |-> style,
                                    promise |-> "pending", error |-> NoError,
                                    callbacks |-> <<>>]]
    IN  IF relativeRef = NoRef
        THEN [R EXCEPT !.ops[c].promise = "rejected", !.ops[c].error = InvalidRef(ref)]
        ELSE IF op = "get"
        THEN doRequest(R, c, "get", Url(op, relativeRef), NoToken)
        ELSE doSecuredRequest(R, c, Method(op), Url(op, relativeRef))

\* an operation is called, promise-style or with a completion callback
Call(c) ==
    /\ ops[c] = NoOp
    /\ \E op \in Operations, ref \in Refs, style \in {"promise", "callback"} :
         RequestBecomes(Operation(RequestState, c, op, ref, style))

\* the authorize request i is answered with a token: auth's then() stores it
\* and the secured request goes out with this._token
Authorized(R, i, t) ==
    LET c == R.http[i].call
        R1 == [R EXCEPT !.http[i].state = "ok", !.http[i].token = t, !.token = t]
    IN  doRequest(R1, c, Method(R1.ops[c].op),
                  Url(R1.ops[c].op, GetRelative(R1.ops[c].ref)), R1.token)

\* the HTTP request i fails, or is answered with Errors
Failed(R, i, e) ==
    Settles([R EXCEPT !.http[i].state = "failed"], R.http[i].call, "rejected",
            GenerateError(<< <<e>> >>))

\* the HTTP request i of an operation is answered
Answered(R, i) ==
    Settles([R EXCEPT !.http[i].state = "ok"], R.http[i].call, "resolved", NoError)

AuthorizeResponds(i) ==
    /\ http[i].state = "sent" /\ http[i].url = AuthorizeUrl
    /\ \/ \E t \in Tokens : RequestBecomes(Authorized(RequestState, i, t))
       \/ \E e \in Errors : RequestBecomes(Failed(RequestState, i, e))

Responds(i) ==
    /\ http[i].state = "sent" /\ http[i].url # AuthorizeUrl
    /\ \/ RequestBecomes(Answered(RequestState, i))
       \/ \E e \in Errors : RequestBecomes(Failed(RequestState, i, e))

RequestInit ==
    /\ server = "wellformed" /\ total = MaxTotal
    /\ Idle /\ NoStub /\ NoInstance /\ NoTwin
    /\ hasKey \in BOOLEAN /\ token = NoToken /\ http = <<>>
    /\ ops = [c \in Calls |-> NoOp]

RequestNext ==
    \/ \E c \in Calls : Call(c)
    \/ \E i \in DOMAIN http : AuthorizeResponds(i)
    \/ \E i \in DOMAIN http : Responds(i)

RequestSpec == RequestInit /\ [][RequestNext]_vars

\* ================================================================ claims
HasLimit == opts.limit # Undefined
Limit == Val(opts.limit)
Available == Max(0, total - opts.start + 1)
CeilDiv(a, b) == (a + b - 1) \div b
Callbacks == {"pagecb", "batchcb", "flushcb"}

\* C1: every invocation issues finitely many fetches and eventually resolves or
\* rejects, whatever the server answers.
C1_Terminates == <>(pc \in {"resolved", "rejected"})

\* C2: with a limit >= 0, no accumulated or delivered count exceeds it: query's
\* Results, and totalProcessed of every PageInfo, BatchInfo, StreamResult and
\* BatchResult.
C2_LimitNotExceeded ==
    (HasLimit /\ Limit >= 0) =>
        /\ Len(results) <= Limit /\ totalFetched <= Limit
        /\ totalProcessed <= Limit /\ Len(delivered) <= Limit
        /\ batchTotal <= Limit /\ Len(batchRecords) <= Limit
        /\ (pageInfo.kind = "page" => pageInfo.totalProcessed <= Limit)
        /\ (batchInfo.kind = "batch" => batchInfo.totalProcessed <= Limit)
        /\ (result.kind = "query" => Len(result.Results) <= Limit)
        /\ (result.kind \in {"stream", "batch"} => result.totalProcessed <= Limit)

C2_Witness ==
    /\ mode = "batch" /\ pc = "resolved" /\ opts.limit = Num(1)
    /\ Len(served) = 2 /\ result.totalProcessed = 1 /\ batchInfo.totalProcessed = 1

\* C3: with 0 < limit < the records available from start, a requested page
\* size >= 1 and a well-formed server, query resolves with exactly limit
\* records after exactly ceil(limit / pageSize) fetches.
C3_LimitedQuery ==
    ( /\ mode = "query" /\ server = "wellformed" /\ pc = "resolved"
      /\ HasLimit /\ Limit > 0 /\ Limit < Available /\ opts.pageSize >= 1 )
    => /\ Len(result.Results) = Limit
       /\ calls = CeilDiv(Limit, opts.pageSize)

C3_Witness ==
    /\ mode = "query" /\ server = "wellformed" /\ pc = "resolved"
    /\ opts.limit = Num(3) /\ opts.pageSize = 2 /\ Limit < Available
    /\ calls = 2 /\ Len(result.Results) = 3

\* C4: in query and queryStream, once the records accumulated or delivered
\* have reached the limit no further fetch is issued; when the limit is a
\* multiple of the page size and the well-formed server has that many
\* records, exactly limit / pageSize fetches occur.
C4_Reached ==
    /\ mode \in {"query", "stream"} /\ calls >= 1 /\ HasLimit
    /\ IF mode = "query" THEN Len(results) >= Limit ELSE Len(delivered) >= Limit

C4_Boundary ==
    ( /\ mode \in {"query", "stream"} /\ server = "wellformed" /\ pc = "resolved"
      /\ ~stopped /\ HasLimit /\ Limit > 0 /\ opts.pageSize >= 1
      /\ Limit % opts.pageSize = 0 /\ Limit <= Available )
    => calls = Limit \div opts.pageSize

C4_NoFetchAfterLimit ==
    /\ [][(C4_Reached /\ calls < MaxCalls) => calls' = calls]_vars
    /\ [](C4_Boundary)

C4_Witness ==
    /\ mode = "stream" /\ server = "wellformed" /\ pc = "resolved" /\ ~stopped
    /\ opts.limit = Num(2) /\ opts.pageSize = 1 /\ Available > 2
    /\ calls = 2 /\ result.totalProcessed = 2

\* C5: without a limit, query's Results is the in-order concatenation of the
\* records of every page fetched, the last of them being the first page
\* after which the continuation predicate fails.
C5_Continues == IsValidPagination(cur, opts) /\ HasMoreData(cur, opts)

C5_ResultsAreAllPages ==
    (mode = "query" /\ ~HasLimit) =>
        /\ results = served
        /\ (pc = "resolved" => result.Results = served /\ ~C5_Continues)
        /\ (pc = "fetch" /\ calls > 1 => C5_Continues)

C5_Witness ==
    /\ mode = "query" /\ ~HasLimit /\ pc = "resolved" /\ server = "wellformed"
    /\ calls = 2 /\ Len(result.Results) = 4 /\ opts.pageSize = 2

\* C6: against a well-formed server each strategy delivers exactly
\* the records start..min(total, start+limit-1) in server order.
C6_Expected ==
    LET last == IF HasLimit THEN Min(total, opts.start + Limit - 1) ELSE total
    IN  Records(opts.start, Max(0, last - opts.start + 1))

C6_Delivered ==
    CASE mode = "query" -> result.Results
      [] mode = "stream" -> delivered
      [] mode = "batch" -> batchRecords

C6_AllRecordsInOrder_AnyPageSize ==
    (server = "wellformed" /\ pc = "resolved" /\ ~stopped)
    => C6_Delivered = C6_Expected

\* C7: a first envelope without StartIndex or with a non-numeric
\* TotalResultCount makes query issue exactly one fetch and resolve with the
\* records of that page only (as far as the limit allows).
C7_MalformedFirstPage ==
    (mode = "query" /\ firstMalformed) =>
        /\ pc = "resolved" /\ calls = 1 /\ inflight = 0
        /\ result.Results = IF HasLimit THEN Take(served, Limit) ELSE served

C7_Witness ==
    /\ mode = "query" /\ firstMalformed /\ pc = "resolved"
    /\ cur.TotalResultCount = Str /\ cur.StartIndex = Num(1)
    /\ Len(result.Results) = 2 /\ opts.pageSize = 1

\* C8: when request.get rejects, the driver rejects with the same error, no
\* result is produced, and no fetch and no page or batch callback follows.
C8_RejectionPropagates ==
    thrown # "" =>
        /\ pc = "rejected" /\ error = thrown /\ result = NoResult
        /\ inflight = 0 /\ pending = 0
        /\ calls = atFailure.calls /\ pageCalls = atFailure.pageCalls
        /\ Len(batchDelivered) = atFailure.batchCalls

C8_Witness ==
    /\ mode = "batch" /\ pc = "rejected" /\ thrown = "HTTP 500"
    /\ calls = 2 /\ Len(currentBatch) = 1 /\ batches = 0 /\ pageCalls = 1

\* C9: once the page callback of queryStream returns a falsy value no fetch
\* and no callback follows; the result has completed = false and
\* totalProcessed = the records of all pages delivered, the last one included.
C9_Stopped ==
    (mode = "stream" /\ stopped) =>
        /\ pc = "resolved" /\ inflight = 0 /\ pending = 0
        /\ result.kind = "stream" /\ result.completed = FALSE
        /\ result.totalProcessed = Len(delivered)

C9_StopIsFinal ==
    /\ [](C9_Stopped)
    /\ [][(mode = "stream" /\ stopped) => (calls' = calls /\ pageCalls' = pageCalls)]_vars

C9_Witness ==
    /\ mode = "stream" /\ stopped /\ pc = "resolved" /\ pageCalls = 2 /\ calls = 2
    /\ result.totalProcessed = 2 /\ result.completed = FALSE

\* C10: at most one fetch is in flight, none while a page or batch callback is
\* unresolved, and a fetch is issued only when the previous page is fully
\* processed: counted, and all of its records batched.
C10_OneAtATime ==
    /\ inflight \in {0, 1} /\ pending \in {0, 1} /\ inflight + pending <= 1
    /\ (pc \in Callbacks => pending = 1 /\ inflight = 0)
    /\ (pc = "fetch" =>
          /\ inflight = 1
          /\ (mode \in {"stream", "batch"} => totalProcessed = Len(delivered))
          /\ (mode = "batch" =>
                /\ pageRest = <<>> /\ batchTotal = Len(batchRecords)
                /\ batchRecords \o currentBatch = delivered))

C10_Witness ==
    /\ pc = "fetch" /\ mode = "batch" /\ calls = 4 /\ batches = 1
    /\ Len(currentBatch) = 1 /\ batchSize = 2

\* C11: queryStream resolves with completed = false exactly when the page
\* callback returned a falsy value; ending at the limit, at the end of the data
\* or on invalid pagination metadata gives completed = true; a stop asked for by
\* the callback resolves, it never rejects.
C11_CompletedIffNotStopped ==
    mode = "stream" =>
        /\ (pc = "resolved" => result.kind = "stream" /\ result.completed = ~stopped)
        /\ (stopped => pc = "resolved" /\ error = "")

C11_Witness ==
    /\ mode = "stream" /\ pc = "resolved" /\ ~stopped /\ result.completed = TRUE
    /\ pageCalls = 2 /\ ~IsValidPagination(cur, opts) /\ ~HasLimit

\* C12: queryStream never hands the page callback an empty page; a page the
\* limit ends strictly inside is delivered trimmed to exactly the remaining
\* count, and once its callback continues the stream resolves with
\* completed = true and no further fetch.
C12_LimitInsidePage ==
    /\ mode = "stream" /\ pc = "pagecb"
    /\ HasLimit /\ Len(cur.Results) > Limit - totalProcessed

C12_PagesNotEmpty ==
    mode = "stream" =>
        /\ (pageCalls > 0 => Len(page) >= 1)
        /\ (C12_LimitInsidePage =>
              /\ Len(page) = Limit - totalProcessed
              /\ page = Take(cur.Results, Limit - totalProcessed))

C12_TrimmedPageIsLast ==
    /\ [](C12_PagesNotEmpty)
    /\ [][C12_LimitInsidePage =>
            /\ pc' = "resolved" /\ calls' = calls /\ pageCalls' = pageCalls
            /\ (~stopped' => result'.completed = TRUE /\ result'.totalProcessed = Limit)]_vars

C12_Witness ==
    /\ mode = "stream" /\ pc = "resolved" /\ ~stopped /\ result.completed = TRUE
    /\ opts.limit = Num(3) /\ opts.pageSize = 2 /\ calls = 2
    /\ Len(served) = 4 /\ delivered = <<1, 2, 3>> /\ page = <<3>>

\* C13: at every page callback of queryStream pageInfo.pageSize is the number
\* of records passed, pageInfo.startIndex the envelope's StartIndex and
\* pageInfo.totalProcessed the number of records of all pages delivered so far,
\* this one included; StreamResult.totalProcessed is the last
\* pageInfo.totalProcessed, or 0 when the callback was never invoked.
C13_PageInfo ==
    mode = "stream" =>
        /\ (pageCalls = 0 => pageInfo = NoInfo /\ delivered = <<>>)
        /\ (pageCalls > 0 =>
              /\ pageInfo.kind = "page"
              /\ pageInfo.pageSize = Len(page)
              /\ pageInfo.totalProcessed = Len(delivered))
        /\ (pc = "pagecb" => pageInfo.startIndex = cur.StartIndex)
        /\ (pc = "resolved" =>
              result.totalProcessed = IF pageCalls = 0 THEN 0
                                      ELSE pageInfo.totalProcessed)

C13_Witness ==
    /\ mode = "stream" /\ pc = "pagecb" /\ pageCalls = 2
    /\ pageInfo.startIndex = Num(4) /\ pageInfo.pageSize = 1
    /\ pageInfo.totalProcessed = 3 /\ opts.start = 2

\* C14: for every batchSize >= 1 and every sequence of pages, each batch given
\* to the queryBatch callback has exactly batchSize records, except possibly
\* the last one delivered, which has between 1 and batchSize; a batch may span
\* pages.
C14_BatchSizes ==
    mode = "batch" =>
        \A i \in 1..Len(batchDelivered) :
            /\ 1 <= batchDelivered[i] /\ batchDelivered[i] <= batchSize
            /\ (i < Len(batchDelivered) => batchDelivered[i] = batchSize)

C14_Witness ==
    /\ mode = "batch" /\ pc = "resolved" /\ batchSize = 2 /\ opts.pageSize = 1
    /\ pageCalls = 3 /\ batchDelivered = <<2, 1>>

\* C15: over the batch callbacks of one queryBatch call, the remainder's
\* included, batchInfo.batchNumber counts 1, 2, 3, ... in invocation order and
\* batchInfo.totalProcessed is the sum of the sizes of the batches delivered so
\* far, this one included; the BatchResult has totalBatches = the number of
\* invocations and totalProcessed = the sum of their sizes.
RECURSIVE C15_Sum(_)
C15_Sum(sizes) == IF sizes = <<>> THEN 0 ELSE Head(sizes) + C15_Sum(Tail(sizes))

C15_BatchInfo ==
    mode = "batch" =>
        /\ (batchDelivered = <<>> => batchInfo = NoInfo)
        /\ (batchDelivered # <<>> =>
              /\ batchInfo.kind = "batch"
              /\ batchInfo.batchNumber = Len(batchDelivered)
              /\ batchInfo.batchSize = batchDelivered[Len(batchDelivered)]
              /\ batchInfo.totalProcessed = C15_Sum(batchDelivered))
        /\ (pc = "resolved" =>
              /\ result.totalBatches = Len(batchDelivered)
              /\ result.totalProcessed = C15_Sum(batchDelivered))

C15_Numbering ==
    /\ [](C15_BatchInfo)
    /\ [][batchDelivered' # batchDelivered =>
            /\ Len(batchDelivered') = Len(batchDelivered) + 1
            /\ batchInfo'.batchNumber = Len(batchDelivered) + 1]_vars

C15_Witness ==
    /\ mode = "batch" /\ pc = "resolved" /\ batchSize = 1 /\ opts.pageSize = 2
    /\ batchDelivered = <<1, 1, 1>> /\ batchInfo.batchNumber = 3
    /\ result.totalBatches = 3 /\ result.totalProcessed = 3

\* C16: when the stream under queryBatch finishes, the batch callback is
\* invoked once more, with the remainder, exactly if the accumulator is not
\* empty, and never after that; when no batch callback asked to stop,
\* BatchResult.totalProcessed = StreamResult.totalProcessed: every record the
\* stream delivered is in exactly one batch.
C16_StreamFinishes == mode = "batch" /\ streamResult = NoResult /\ streamResult' # NoResult

C16_Complete ==
    (mode = "batch" /\ pc = "resolved" /\ ~stopped) =>
        /\ result.totalProcessed = streamResult.totalProcessed
        /\ batchRecords = delivered

C16_RemainderFlushedOnce ==
    /\ [](C16_Complete)
    /\ [][C16_StreamFinishes =>
            /\ (Len(currentBatch') > 0 <=> pc' = "flushcb")
            /\ (pc' = "flushcb" =>
                  /\ batchDelivered' = Append(batchDelivered, Len(currentBatch'))
                  /\ batchRecords' = batchRecords \o currentBatch')
            /\ (pc' # "flushcb" => pc' = "resolved" /\ batchDelivered' = batchDelivered)]_vars
    /\ [][(mode = "batch" /\ streamResult # NoResult) =>
            (batchDelivered' = batchDelivered /\ calls' = calls)]_vars

C16_Witness ==
    /\ mode = "batch" /\ pc = "resolved" /\ ~stopped /\ batchSize = 2
    /\ opts.pageSize = 2 /\ currentBatch = <<4>> /\ batchRecords = <<2, 3, 4>>
    /\ streamResult.totalProcessed = 3 /\ result.totalBatches = 2

\* C17: in every batch callback of queryBatch, the remainder's included,
\* batchInfo.totalResultCount is the TotalResultCount the server reports, also
\* when fewer records are processed than the server holds.
C17_ServerTotal ==
    (mode = "batch" /\ server = "wellformed" /\ batchInfo.kind = "batch") =>
        batchInfo.totalResultCount = Num(total)

\* C18: once a batch callback of queryBatch returns a falsy value the stream
\* is stopped: no fetch follows and no batch callback, not even for the records
\* of the current page that come after the stopping batch.
C18_Stopped ==
    (mode = "batch" /\ stopped) => (pc = "resolved" /\ inflight = 0 /\ pending = 0)

C18_BatchStopIsFinal ==
    /\ [](C18_Stopped)
    /\ [][(mode = "batch" /\ stopped') =>
            (calls' = calls /\ batchDelivered' = batchDelivered
             /\ pageCalls' = pageCalls)]_vars

C18_Witness ==
    /\ mode = "batch" /\ stopped /\ pc = "resolved" /\ batchSize = 1
    /\ opts.pageSize = 2 /\ delivered = <<1, 2>> /\ batchRecords = <<1>>
    /\ pageRest = <<2>> /\ calls = 1

\* C19: when any batch callback of queryBatch, mid-stream or the remainder's,
\* returns a falsy value the BatchResult has completed = false and the promise
\* does not reject; when none does, completed = true.
C19_CompletedIffNoFalsy ==
    mode = "batch" =>
        /\ (pc = "resolved" => result.kind = "batch" /\ result.completed = ~stopped)
        /\ (stopped => pc = "resolved" /\ error = "")

\* C20: query and queryStream correct a requested pageSize of 0 to 1 before
\* any request: every outgoing request has pagesize >= 1.
C20_PageSizeAtLeastOne ==
    (mode \in {"query", "stream"} /\ calls >= 1) => req.pagesize >= 1

\* C21: with a requested pageSize of 0 and a limit larger than the first page
\* (or none), query issues exactly one fetch and resolves with exactly the
\* records of that page, even when the envelope's StartIndex and
\* TotalResultCount are valid and tell of more data.
C21_ZeroPageSizeOneFetch ==
    (mode = "query" /\ opts.pageSize = 0) =>
        /\ calls = 1
        /\ pc \in {"fetch", "resolved", "rejected"}
        /\ (pc = "resolved" /\ (~HasLimit \/ Limit > Len(served)) =>
              result.Results = served)

C21_Witness ==
    /\ mode = "query" /\ opts.pageSize = 0 /\ pc = "resolved" /\ calls = 1
    /\ opts.limit = Num(3) /\ result.Results = <<1, 2>>
    /\ cur.StartIndex = Num(1) /\ cur.TotalResultCount = Num(4)

\* C22: query with limit = 0 issues no page fetch at all and resolves with
\* Results empty, StartIndex = the caller's start, PageSize 0 and
\* TotalResultCount 0.
C22_NoFetchForLimitZero ==
    (mode = "query" /\ opts.limit = Num(0)) =>
        /\ calls = 0
        /\ (pc = "resolved" =>
              /\ result.Results = <<>> /\ result.StartIndex = opts.start
              /\ result.PageSize = 0 /\ result.TotalResultCount = Num(0))

\* C23: query with limit = 0 resolves with Results empty whatever records the
\* server returns; queryStream with limit = 0 never invokes the page callback
\* and resolves with totalProcessed = 0.
C23_LimitZeroDeliversNothing ==
    opts.limit = Num(0) =>
        /\ (mode = "query" =>
              /\ results = <<>>
              /\ (pc = "resolved" => result.Results = <<>>))
        /\ (mode = "stream" =>
              /\ pageCalls = 0 /\ pc # "pagecb" /\ delivered = <<>>
              /\ (pc = "resolved" => result.totalProcessed = 0))

C23_Witness ==
    /\ mode = "stream" /\ opts.limit = Num(0) /\ pc = "resolved"
    /\ Len(served) = 2 /\ pageCalls = 0 /\ result.totalProcessed = 0

\* C24: for a negative limit query does not shrink the page size: the first
\* request asks for the requested pageSize, and exactly one fetch is issued
\* even when the envelope tells of more data.
C24_NegativeLimit ==
    (mode = "query" /\ HasLimit /\ Limit < 0) =>
        /\ calls = 1 /\ req.pagesize = opts.pageSize /\ req.start = opts.start
        /\ pc \in {"fetch", "resolved", "rejected"}

C24_Witness ==
    /\ mode = "query" /\ opts.limit = Num(-1) /\ opts.pageSize = 2
    /\ pc = "resolved" /\ calls = 1 /\ Len(served) = 2
    /\ IsValidPagination(cur, opts) /\ HasMoreData(cur, opts)

\* C30: on every path on which query resolves (early exit, trimmed page,
\* normal end) the result has StartIndex = the caller's start and PageSize =
\* the length of the accumulated Results.
C30_ResultShape ==
    (mode = "query" /\ pc = "resolved") =>
        /\ result.kind = "query"
        /\ result.Results = results
        /\ result.StartIndex = opts.start
        /\ result.PageSize = Len(result.Results)

C30_Witness ==
    /\ mode = "query" /\ pc = "resolved" /\ opts.limit = Num(3) /\ opts.pageSize = 2
    /\ calls = 2 /\ Len(served) = 4 /\ cur.StartIndex = Num(3)
    /\ result.StartIndex = 1 /\ result.PageSize = 3 /\ result.Results = <<1, 2, 3>>

\* C28: a completion callback passed as the last argument of queryBatch is
\* invoked exactly once, only after every batch, the remainder included, has
\* been delivered to the batch callback, and with the BatchResult the promise
\* resolves to.
C28_CompletionAfterBatches ==
    mode = "batch" =>
        /\ Len(completion) <= 1
        /\ (pc = "resolved" => completion = <<result>>)
        /\ (completion # <<>> => pc \in {"resolved", "rejected"} /\ pending = 0)

\* C25: query called twice with identical options against a deterministic
\* stub, one that hands back the same stored envelope objects included, gives
\* identical Results and identical sequences of requests in both runs.
C25_SameTwice ==
    run = 2 =>
        /\ \A i \in 1..Len(requests) :
             i <= Len(first.requests) /\ requests[i] = first.requests[i]
        /\ (pc = "resolved" =>
              result.Results = first.Results /\ requests = first.requests)

\* C27: the drivers never modify an envelope object request.get returned: after
\* the call every envelope's Results, StartIndex and TotalResultCount are what
\* the fetcher produced.
C27_EnvelopesUntouched ==
    \A r \in DOMAIN heap : heap[r] = WellFormed(r)

C29_BatchSizeIsPageSize ==
    \A i \in DOMAIN frames :
        (args[i] # NoArgs /\ args[i].batchSize = Callback) =>
            /\ frames[i].batchSize = frames[i].opts.pageSize
            /\ \A k \in 1..(Len(frames[i].batchDelivered) - 1) :
                 frames[i].batchDelivered[k] = frames[i].opts.pageSize

\* C32: in query and queryStream a next page is fetched only if, for the
\* envelope just processed, StartIndex is a positive number, the requested
\* page size is a positive number, TotalResultCount is a number, StartIndex +
\* requested page size <= TotalResultCount, and no limit is set or the count
\* so far is below the limit; otherwise the invocation fetches no further page.
C32_MayContinue ==
    /\ TypeofNumber(cur.StartIndex) /\ Val(cur.StartIndex) > 0
    /\ opts.pageSize > 0
    /\ TypeofNumber(cur.TotalResultCount)
    /\ Val(cur.StartIndex) + opts.pageSize <= Val(cur.TotalResultCount)
    /\ (~HasLimit \/ (IF mode = "query" THEN totalFetched ELSE totalProcessed) < Limit)

C32_Continuation ==
    /\ mode' \in {"query", "stream"}
    /\ pc \in {"fetch", "pagecb"} /\ pc' = "fetch"

C32_NextPageOnlyIf == [][C32_Continuation => C32_MayContinue']_vars

\* C33: in query and queryStream the start of request k+1 is the StartIndex of
\* envelope k plus the caller's requested page size, not the trimmed size of
\* the first request; against a server that echoes the requested start the
\* starts requested increase in steps of the requested page size.
C33_NextStart ==
    [][C32_Continuation =>
          /\ req'.start = Val(cur'.StartIndex) + opts'.pageSize
          /\ (server = "wellformed" =>
                /\ req'.start = req.start + opts'.pageSize
                /\ req'.start > req.start)]_vars

C33_Witness ==
    /\ mode = "query" /\ pc = "fetch" /\ calls = 2
    /\ opts.pageSize = 2 /\ opts.limit = Num(1) /\ opts.start = 1
    /\ cur.StartIndex = Num(1) /\ req = [start |-> 3, pagesize |-> 1]

\* C34: the first request of query and queryStream carries start = the
\* caller's start (1 when left out) and pagesize = min(requested page size,
\* limit) when limit > 0, the requested page size otherwise (200 when left out).
C34_Requested(a) == IF a.pageSize = Undefined THEN 200 ELSE Val(a.pageSize)

C35_SameAsQuery ==
    LET q == twin.query
        st == twin.stream
    IN  /\ st.pc = "pagecb" =>
              /\ Len(asked.stream) <= Len(asked.query)
              /\ asked.stream = SubSeq(asked.query, 1, Len(asked.stream))
        /\ st.pc # "pagecb" =>
              /\ asked.stream = asked.query
              /\ st.pc = q.pc
              /\ st.delivered = q.results
        /\ st.pc = "resolved" =>
              /\ st.delivered = q.result.Results
              /\ st.result.totalProcessed = Len(q.result.Results)

C35_Witness ==
    /\ twin.stream.pc = "resolved" /\ twin.query.pc = "resolved"
    /\ twin.stream.opts = [start |-> 1, pageSize |-> 2, limit |-> Num(3)]
    /\ Len(asked.stream) = 2 /\ twin.stream.pageCalls = 2
    /\ twin.stream.result.totalProcessed = 3
    /\ twin.query.result.Results = <<1, 2, 3>>

C31_InvalidRefRejected ==
    \A c \in Calls :
        (ops[c].op \in Operations /\ ops[c].ref = "invalid-ref") =>
            /\ ops[c].promise = "rejected"
            /\ ops[c].error.message[1] = "Invalid ref: "
            /\ ops[c].error.errors[1] = ops[c].error.message
            /\ \A i \in DOMAIN http : http[i].call # c

C31_Witness ==
    /\ ops[1].op = "remove" /\ ops[1].ref = "invalid-ref" /\ ops[1].promise = "rejected"
    /\ ops[2].op = "get" /\ ops[2].ref = "/defect/1234" /\ ops[2].promise = "pending"
    /\ Len(http) = 1 /\ http[1].call = 2

\* C37: get, update, del, add or remove called with a completion callback and
\* an invalid ref invokes the callback exactly once, with the 'Invalid ref'
\* error.
C37_CallbackOnInvalidRef ==
    \A c \in Calls :
        (ops[c].op \in Operations /\ ops[c].style = "callback"
           /\ ops[c].ref = "invalid-ref") =>
            ops[c].callbacks = <<[promise |-> "rejected", error |-> InvalidRef(ops[c].ref)]>>

\* C38: on a Request without an API key every POST, PUT or DELETE issued
\* carries as key a token that an authorize request answered earlier returned,
\* and a call whose authorization failed issues no secured request; on a
\* Request with an API key no authorize request is issued; a GET never
\* triggers an authorize request.
C38_Secured(i) == http[i].method \in {"post", "put", "delete"}

C38_Authorize(i) == http[i].url = AuthorizeUrl

C38_TokenBeforeSecuredRequest ==
    /\ \A i \in DOMAIN http :
          (C38_Secured(i) /\ ~hasKey) =>
              \E j \in 1..(i - 1) :
                  /\ C38_Authorize(j) /\ http[j].state = "ok"
                  /\ http[j].token \in Tokens /\ http[i].key = http[j].token
    /\ \A j \in DOMAIN http :
          (C38_Authorize(j) /\ http[j].state = "failed") =>
              \A i \in DOMAIN http : C38_Secured(i) => http[i].call # http[j].call
    /\ \A j \in DOMAIN http :
          C38_Authorize(j) => ~hasKey /\ ops[http[j].call].op # "get"

C38_Witness ==
    /\ ~hasKey /\ Len(http) = 3
    /\ C38_Authorize(1) /\ http[1].state = "ok" /\ http[1].token = "token-1"
    /\ C38_Authorize(2) /\ http[2].state = "failed" /\ http[2].call = 2
    /\ http[3].method = "put" /\ http[3].key = "token-1" /\ http[3].call = 1
    /\ ops[2].promise = "rejected"

\* C39: on a Request without an API key at most one authorize request is
\* issued as long as authorization succeeds: secured requests started before
\* the token has arrived share one authorization, and once a token is stored
\* no later post, put or del issues another.
C39_Authorizations == {i \in DOMAIN http : C38_Authorize(i)}

C39_OneAuthorization ==
    (~hasKey /\ \A i \in C39_Authorizations : http[i].state # "failed") =>
        Cardinality(C39_Authorizations) <= 1

====
